---- MODULE Spec2Model ----
(***************************************************************************)
(* Model of textlint-plugin-rustdoc: src/src/comment.ts (classification,   *)
(* prefix stripping, grouping, tree construction) and the preProcess       *)
(* handler of src/src/RustdocProcessor.ts.                                 *)
(*                                                                         *)
(* A JavaScript string is a sequence of one-character strings.  A          *)
(* SyntaxNode is a record [text, startIndex, endIndex, startPosition,      *)
(* endPosition]; positions are [row, column], both 0-indexed.  A function  *)
(* that returns "T | null" returns a sequence of length at most one.       *)
(***************************************************************************)
EXTENDS Integers, Sequences, FiniteSets, TLC

VARIABLES rawText, captures, ret

vars == <<rawText, captures, ret>>

\* ------------------------------------------------------------------ bounds

\* Captured comment nodes per source text.
MaxTokens == 3
\* Line breaks the source may hold between two comments.
MaxGap == 2
\* Characters after the two-character comment opener in the texts that are
\* enumerated exhaustively.
MaxBody == 4
\* Columns of indentation in front of a comment.
MaxIndent == 1

\* ------------------------------------------------------- JavaScript strings

NL == "\n"
SP == " "

Alphabet == {"/", "*", "!", SP, NL, "a"}

\* The characters of the alphabet the regular expression class \s, and
\* String.prototype.trim, treat as white space.
IsWhitespace(c) == c \in {SP, NL, "\t", "\r"}

Min(a, b) == IF a < b THEN a ELSE b
Max(a, b) == IF a > b THEN a ELSE b

\* String.prototype.startsWith
StartsWith(text, prefix) ==
    /\ Len(text) >= Len(prefix)
    /\ SubSeq(text, 1, Len(prefix)) = prefix

\* String.prototype.slice(start, end), either index negative or not.
Slice(text, start, end) ==
    LET n == Len(text)
        from == IF start < 0 THEN Max(n + start, 0) ELSE Min(start, n)
        to == IF end < 0 THEN Max(n + end, 0) ELSE Min(end, n)
    IN IF from >= to THEN <<>> ELSE SubSeq(text, from + 1, to)

\* String.prototype.slice(start)
SliceFrom(text, start) == Slice(text, start, Len(text))

\* String.prototype.split("\n"): the pieces between the line breaks.
RECURSIVE SplitFrom(_, _, _)
SplitFrom(text, i, cur) ==
    IF i > Len(text) THEN <<cur>>
    ELSE IF text[i] = NL THEN <<cur>> \o SplitFrom(text, i + 1, <<>>)
    ELSE SplitFrom(text, i + 1, Append(cur, text[i]))

SplitLines(text) == SplitFrom(text, 1, <<>>)

\* Array.prototype.join("\n")
RECURSIVE JoinLines(_)
JoinLines(lines) ==
    IF Len(lines) = 0 THEN <<>>
    ELSE IF Len(lines) = 1 THEN lines[1]
    ELSE lines[1] \o <<NL>> \o JoinLines(Tail(lines))

\* The number of white-space characters text starts with.
RECURSIVE LeadingSpace(_)
LeadingSpace(text) ==
    IF Len(text) > 0 /\ IsWhitespace(text[1])
    THEN 1 + LeadingSpace(Tail(text))
    ELSE 0

\* The number of white-space characters text ends with.
RECURSIVE TrailingSpace(_)
TrailingSpace(text) ==
    IF Len(text) > 0 /\ IsWhitespace(text[Len(text)])
    THEN 1 + TrailingSpace(SubSeq(text, 1, Len(text) - 1))
    ELSE 0

\* String.prototype.trim
Trim(text) ==
    LET a == LeadingSpace(text)
    IN IF a = Len(text) THEN <<>>
       ELSE SubSeq(text, a + 1, Len(text) - TrailingSpace(text))

\* ---------------------------------------------------------------- comment.ts

Null == "null"

OuterLineMarker == <<"/", "/", "/">>
InnerLineMarker == <<"/", "/", "!">>
OuterBlockMarker == <<"/", "*", "*">>
InnerBlockMarker == <<"/", "*", "!">>
TripleStarMarker == <<"/", "*", "*", "*">>

RustdocTypes == {"outer_line", "inner_line", "outer_block", "inner_block"}

\* getRustdocType without the test for `/***`.
getRustdocType_NoTripleStarCheck(text) ==
    IF StartsWith(text, OuterLineMarker) THEN "outer_line"
    ELSE IF StartsWith(text, InnerLineMarker) THEN "inner_line"
    ELSE IF StartsWith(text, OuterBlockMarker) THEN "outer_block"
    ELSE IF StartsWith(text, InnerBlockMarker) THEN "inner_block"
    ELSE Null

getRustdocType(text) ==
    IF StartsWith(text, OuterLineMarker) THEN "outer_line"
    ELSE IF StartsWith(text, InnerLineMarker) THEN "inner_line"
    ELSE IF StartsWith(text, OuterBlockMarker) /\ ~StartsWith(text, TripleStarMarker)
         THEN "outer_block"
    ELSE IF StartsWith(text, InnerBlockMarker) THEN "inner_block"
    ELSE Null

\* text.match(/^<marker>\s?/): the matched string in a sequence, or <<>> for
\* no match.
MatchMarker(text, marker) ==
    IF ~StartsWith(text, marker) THEN <<>>
    ELSE IF Len(text) > Len(marker) /\ IsWhitespace(text[Len(marker) + 1])
         THEN <<SubSeq(text, 1, Len(marker) + 1)>>
    ELSE <<marker>>

\* line.replace(/^\s*\*\s?/, ""), k the number of white-space characters the
\* line starts with.
StripLeaderAfter(line, k) ==
    IF k < Len(line) /\ line[k + 1] = "*"
    THEN IF k + 1 < Len(line) /\ IsWhitespace(line[k + 2])
         THEN SliceFrom(line, k + 2)
         ELSE SliceFrom(line, k + 1)
    ELSE line

StripLeader(line) == StripLeaderAfter(line, LeadingSpace(line))

processBlockContent(content) ==
    LET lines == SplitLines(content)
        stripped == [i \in 1..Len(lines) |-> StripLeader(lines[i])]
    IN Trim(JoinLines(stripped))

\* The prefix length taken to be 3 whatever was matched.
PrefixLengthOf_Fixed3(match) == 3

\* const prefixLength = match ? match[0].length : 3
PrefixLengthOf(match) == IF match # <<>> THEN Len(match[1]) ELSE 3

\* What extractContent returns for a line comment.
LineContent(text, prefixLength) ==
    [content |-> SliceFrom(text, prefixLength), prefixLength |-> prefixLength]

\* The closing marker left in: text.slice(3).
BlockInner_KeepClosing(text) == SliceFrom(text, 3)

\* const inner = text.slice(3, -2)
BlockInner(text) == Slice(text, 3, -2)

extractContent(text, docType) ==
    CASE docType = "outer_line" ->
            LineContent(text, PrefixLengthOf(MatchMarker(text, OuterLineMarker)))
      [] docType = "inner_line" ->
            LineContent(text, PrefixLengthOf(MatchMarker(text, InnerLineMarker)))
      [] docType = "outer_block" ->
            [content |-> processBlockContent(BlockInner(text)),
             prefixLength |-> 3]
      [] docType = "inner_block" ->
            [content |-> processBlockContent(BlockInner(text)),
             prefixLength |-> 3]

\* The end of the range computed from the content's length instead of taken
\* from the node.
StrNode_EndFromContent(node, content, prefixLength) ==
    [type |-> "Str",
     raw |-> content,
     value |-> content,
     range |-> <<node.startIndex + prefixLength, node.startIndex + Len(content)>>,
     loc |-> [start |-> [line |-> node.startPosition.row + 1,
                         column |-> node.startPosition.column + prefixLength],
              end |-> [line |-> node.endPosition.row + 1,
                       column |-> node.endPosition.column]]]

\* The TxtStrNode createStrNode builds from what extractContent returned.
StrNode(node, content, prefixLength) ==
    [type |-> "Str",
     raw |-> content,
     value |-> content,
     range |-> <<node.startIndex + prefixLength, node.endIndex>>,
     loc |-> [start |-> [line |-> node.startPosition.row + 1,
                         column |-> node.startPosition.column + prefixLength],
              end |-> [line |-> node.endPosition.row + 1,
                       column |-> node.endPosition.column]]]

StrNodeOf(node, extracted) ==
    StrNode(node, extracted.content, extracted.prefixLength)

createStrNode(node, docType) ==
    StrNodeOf(node, extractContent(node.text, docType))

traverse(docNode) ==
    LET docType == getRustdocType(docNode.text)
    IN IF docType = Null THEN <<>> ELSE <<createStrNode(docNode, docType)>>

\* The loop of createParagraphNode: one Str node per rustdoc comment.
RECURSIVE ParagraphChildren(_)
ParagraphChildren(nodes) ==
    IF Len(nodes) = 0 THEN <<>>
    ELSE LET docType == getRustdocType(Head(nodes).text)
         IN IF docType = Null THEN ParagraphChildren(Tail(nodes))
            ELSE <<createStrNode(Head(nodes), docType)>>
                     \o ParagraphChildren(Tail(nodes))

\* The TxtParagraphNode createParagraphNode builds.
ParagraphNode(nodes, children, firstChild, lastChild) ==
    [type |-> "Paragraph",
     raw |-> JoinLines([i \in 1..Len(nodes) |-> nodes[i].text]),
     range |-> <<firstChild.range[1], lastChild.range[2]>>,
     loc |-> [start |-> firstChild.loc.start, end |-> lastChild.loc.end],
     children |-> children]

\* createParagraphNode without the test for an empty children array.
ParagraphOf_EmitEmpty(nodes, children) ==
    IF Len(children) = 0
    THEN <<[type |-> "Paragraph",
            raw |-> JoinLines([i \in 1..Len(nodes) |-> nodes[i].text]),
            range |-> <<nodes[1].startIndex, nodes[Len(nodes)].endIndex>>,
            loc |-> [start |-> [line |-> 1, column |-> 0],
                     end |-> [line |-> 1, column |-> 0]],
            children |-> <<>>]>>
    ELSE <<ParagraphNode(nodes, children, children[1], children[Len(children)])>>

\* createParagraphNode once its loop has filled children.
ParagraphOf(nodes, children) ==
    IF Len(children) = 0 THEN <<>>
    ELSE <<ParagraphNode(nodes, children, children[1], children[Len(children)])>>

createParagraphNode(nodes) ==
    IF Len(nodes) = 0 THEN <<>>
    ELSE ParagraphOf(nodes, ParagraphChildren(nodes))

\* Any later row taken for the next row.
isConsecutive_AnyLaterRow(prevNode, currentNode) ==
    currentNode.startPosition.row >= prevNode.startPosition.row + 1

\* The previous comment's end row compared instead of its start row.
isConsecutive_EndRow(prevNode, currentNode) ==
    currentNode.startPosition.row = prevNode.endPosition.row + 1

\* The comparison in the loop of groupConsecutiveNodes.
isConsecutive(prevNode, currentNode) ==
    currentNode.startPosition.row = prevNode.startPosition.row + 1

\* The loop of groupConsecutiveNodes, from 1-based index i on.
RECURSIVE GroupLoop(_, _, _, _)
GroupLoop(nodes, i, groups, currentGroup) ==
    IF i > Len(nodes) THEN Append(groups, currentGroup)
    ELSE IF isConsecutive(nodes[i - 1], nodes[i])
         THEN GroupLoop(nodes, i + 1, groups, Append(currentGroup, nodes[i]))
    ELSE GroupLoop(nodes, i + 1, Append(groups, currentGroup), <<nodes[i]>>)

\* The groups without the last one.
AllButLast(groups) == SubSeq(groups, 1, Len(groups) - 1)

\* groupConsecutiveNodes without the push of the last group after the loop.
groupConsecutiveNodes_NoFinalPush(nodes) ==
    IF Len(nodes) = 0 THEN <<>>
    ELSE AllButLast(GroupLoop(nodes, 2, <<>>, <<nodes[1]>>))

groupConsecutiveNodes(nodes) ==
    IF Len(nodes) = 0 THEN <<>>
    ELSE GroupLoop(nodes, 2, <<>>, <<nodes[1]>>)

\* The loop of convertToTextlintAst over the groups.
RECURSIVE ParagraphsOf(_)
ParagraphsOf(groups) ==
    IF Len(groups) = 0 THEN <<>>
    ELSE createParagraphNode(Head(groups)) \o ParagraphsOf(Tail(groups))

IsRustdoc(node) == getRustdocType(node.text) # Null

\* The empty document with the range [0, 0].
EmptyDocument_ZeroRange(text) ==
    [type |-> "Document",
     raw |-> text,
     range |-> <<0, 0>>,
     loc |-> [start |-> [line |-> 1, column |-> 0],
              end |-> [line |-> 1, column |-> 0]],
     children |-> <<>>]

\* The TxtDocumentNode of a source without rustdoc comments.
EmptyDocument(text) ==
    [type |-> "Document",
     raw |-> text,
     range |-> <<0, Len(text)>>,
     loc |-> [start |-> [line |-> 1, column |-> 0],
              end |-> [line |-> 1, column |-> 0]],
     children |-> <<>>]

\* The document ending where its first paragraph ends.
DocumentNode_FirstChildEnd(text, children, firstChild, lastChild) ==
    [type |-> "Document",
     raw |-> text,
     range |-> <<firstChild.range[1], firstChild.range[2]>>,
     loc |-> [start |-> firstChild.loc.start, end |-> firstChild.loc.end],
     children |-> children]

\* The TxtDocumentNode that spans its paragraphs.
DocumentNode(text, children, firstChild, lastChild) ==
    [type |-> "Document",
     raw |-> text,
     range |-> <<firstChild.range[1], lastChild.range[2]>>,
     loc |-> [start |-> firstChild.loc.start, end |-> lastChild.loc.end],
     children |-> children]

\* convertToTextlintAst once its loop has filled children.
DocumentOf(text, children) ==
    IF Len(children) = 0 THEN EmptyDocument(text)
    ELSE DocumentNode(text, children, children[1], children[Len(children)])

convertToTextlintAst(docNodes, text) ==
    DocumentOf(text,
               ParagraphsOf(groupConsecutiveNodes(SelectSeq(docNodes, IsRustdoc))))

\* ------------------------------------------------------ RustdocProcessor.ts

\* The filter of preProcess: the first node of every startIndex.
RECURSIVE DedupeByStartIndex(_, _)
DedupeByStartIndex(nodes, seenNodes) ==
    IF Len(nodes) = 0 THEN <<>>
    ELSE IF Head(nodes).startIndex \in seenNodes
         THEN DedupeByStartIndex(Tail(nodes), seenNodes)
    ELSE <<Head(nodes)>>
             \o DedupeByStartIndex(Tail(nodes),
                                   seenNodes \cup {Head(nodes).startIndex})

\* node put into a sequence sorted by startIndex, after its equals.
RECURSIVE InsertByStartIndex(_, _)
InsertByStartIndex(sorted, node) ==
    IF Len(sorted) = 0 THEN <<node>>
    ELSE IF node.startIndex < Head(sorted).startIndex THEN <<node>> \o sorted
    ELSE <<Head(sorted)>> \o InsertByStartIndex(Tail(sorted), node)

\* .sort((a, b) => a.startIndex - b.startIndex), a stable sort.
RECURSIVE SortByStartIndex(_)
SortByStartIndex(nodes) ==
    IF Len(nodes) = 0 THEN <<>>
    ELSE InsertByStartIndex(SortByStartIndex(SubSeq(nodes, 1, Len(nodes) - 1)),
                            nodes[Len(nodes)])

commentNodes(nodes) == SortByStartIndex(DedupeByStartIndex(nodes, {}))

preProcess(nodes, text) == convertToTextlintAst(commentNodes(nodes), text)

\* ------------------------------------------------- the tokenizer's output

\* The indices of the line breaks of text.
LineBreaks(text) == {i \in 1..Len(text) : text[i] = NL}

\* The position after `length` characters of which those at the indices
\* `breaks` are line breaks: the row is their number, the column the number
\* of characters after the last of them.
PositionFrom(length, breaks) ==
    [row |-> Cardinality(breaks),
     column |-> IF breaks = {} THEN length
                ELSE length - (CHOOSE i \in breaks : \A j \in breaks : j <= i)]

\* The position of the end of source.
PositionAfter(source) == PositionFrom(Len(source), LineBreaks(source))

\* The SyntaxNode of the comment text that follows the source `before`.
SyntaxNode(before, text) ==
    [text |-> text,
     startIndex |-> Len(before),
     endIndex |-> Len(before) + Len(text),
     startPosition |-> PositionAfter(before),
     endPosition |-> PositionAfter(before \o text)]

\* Where the block comment opened before index i ends (nested comments
\* counted), or 0 when it does not end.
RECURSIVE ScanBlock(_, _, _)
ScanBlock(text, i, depth) ==
    IF i + 1 > Len(text) THEN 0
    ELSE IF text[i] = "/" /\ text[i + 1] = "*" THEN ScanBlock(text, i + 2, depth + 1)
    ELSE IF text[i] = "*" /\ text[i + 1] = "/"
         THEN IF depth = 1 THEN i + 1 ELSE ScanBlock(text, i + 2, depth - 1)
    ELSE ScanBlock(text, i + 1, depth)

\* (block_comment): the whole text is one block comment.
IsBlockComment(text) ==
    /\ StartsWith(text, <<"/", "*">>)
    /\ ScanBlock(text, 3, 1) = Len(text)

\* (line_comment): `//` up to the end of the line; the line break that ends a
\* documentation comment may be part of the node.
IsLineComment(text) ==
    /\ StartsWith(text, <<"/", "/">>)
    /\ \A i \in 1..Len(text) :
          text[i] = NL =>
             /\ i = Len(text)
             /\ \/ StartsWith(text, OuterLineMarker)
                \/ StartsWith(text, InnerLineMarker)

IsComment(text) == IsLineComment(text) \/ IsBlockComment(text)

\* Every string over the alphabet of length at most n.
RECURSIVE Strings(_)
Strings(n) ==
    IF n = 0 THEN {<<>>}
    ELSE LET shorter == Strings(n - 1)
         IN shorter \cup {Append(s, c) : s \in {t \in shorter : Len(t) = n - 1},
                                         c \in Alphabet}

\* Comments longer than the exhaustive ones: a block documentation comment
\* with a leader on every line, one on a single line, a nested one.
SampleTexts ==
    { <<"/", "*", "*", NL, SP, "*", SP, "a", NL, SP, "*", SP, "a", "!", NL, SP, "*", "/">>,
      <<"/", "*", "!", SP, "a", SP, "*", "/">>,
      <<"/", "*", "*", SP, "/", "*", "a", "*", "/", SP, "*", "/">>,
      <<"/", "/", "/", SP, "a", SP, "/", "/", "/", "a">> }

\* The comment texts of the single-comment specification.
CommentTexts ==
    {t \in {<<"/", c>> \o body : c \in {"/", "*"}, body \in Strings(MaxBody)} :
        IsComment(t)} \cup SampleTexts

\* The comment texts of the sources the tokenizer reads in Spec.
TokenTexts ==
    { <<"/", "/", "/", SP, "a">>,
      <<"/", "/", "!", "a", NL>>,
      <<"/", "/", SP, "a">>,
      <<"/", "*", "*", NL, SP, "*", "/">> }

\* n line breaks.
Gap(n) == [i \in 1..n |-> NL]

\* n spaces.
Indent(n) == [i \in 1..n |-> SP]

\* The source ends inside a line comment: the next token is on a later line.
EndsInLineComment(source, nodes) ==
    \E i \in 1..Len(nodes) :
        /\ nodes[i].endIndex = Len(source)
        /\ StartsWith(nodes[i].text, <<"/", "/">>)
        /\ nodes[i].text[Len(nodes[i].text)] # NL

\* ------------------------------------------------------------------ actions

NoCall == [op |-> "none"]

\* The tokenizer reads n line breaks and the comment text, and the query
\* captures its node.
Capture(text, n) ==
    /\ ret = NoCall
    /\ Len(captures) < MaxTokens
    /\ EndsInLineComment(rawText, captures) => n >= 1
    /\ rawText' = rawText \o Gap(n) \o text
    /\ captures' = Append(captures, SyntaxNode(rawText \o Gap(n), text))
    /\ UNCHANGED ret

\* The query captures a node a second time.
Recapture(i) ==
    /\ ret = NoCall
    /\ Len(captures) < MaxTokens
    /\ captures' = Append(captures, captures[i])
    /\ UNCHANGED <<rawText, ret>>

GetRustdocType ==
    /\ ret = NoCall
    /\ Len(captures) > 0
    /\ ret' = [op |-> "getRustdocType",
               val |-> getRustdocType(captures[Len(captures)].text)]
    /\ UNCHANGED <<rawText, captures>>

ExtractContent ==
    /\ ret = NoCall
    /\ Len(captures) > 0
    /\ getRustdocType(captures[Len(captures)].text) # Null
    /\ ret' = [op |-> "extractContent",
               val |-> extractContent(captures[Len(captures)].text,
                                      getRustdocType(captures[Len(captures)].text))]
    /\ UNCHANGED <<rawText, captures>>

Traverse ==
    /\ ret = NoCall
    /\ Len(captures) > 0
    /\ ret' = [op |-> "traverse", val |-> traverse(captures[Len(captures)])]
    /\ UNCHANGED <<rawText, captures>>

GroupConsecutiveNodes ==
    /\ ret = NoCall
    /\ ret' = [op |-> "groupConsecutiveNodes",
               val |-> groupConsecutiveNodes(captures)]
    /\ UNCHANGED <<rawText, captures>>

CreateParagraphNode ==
    /\ ret = NoCall
    /\ ret' = [op |-> "createParagraphNode",
               val |-> createParagraphNode(captures)]
    /\ UNCHANGED <<rawText, captures>>

ConvertToTextlintAst ==
    /\ ret = NoCall
    /\ ret' = [op |-> "convertToTextlintAst",
               val |-> convertToTextlintAst(captures, rawText)]
    /\ UNCHANGED <<rawText, captures>>

PreProcess ==
    /\ ret = NoCall
    /\ ret' = [op |-> "preProcess",
               nodes |-> commentNodes(captures),
               val |-> preProcess(captures, rawText)]
    /\ UNCHANGED <<rawText, captures>>

\* ----------------------------------------------------------- specifications

\* A source the tokenizer reads comment by comment, and the tree builder's
\* entry points called on what was captured.
Init ==
    /\ rawText = <<>>
    /\ captures = <<>>
    /\ ret = NoCall

Next ==
    \/ \E text \in TokenTexts, n \in 0..MaxGap : Capture(text, n)
    \/ \E i \in 1..Len(captures) : Recapture(i)
    \/ GroupConsecutiveNodes
    \/ CreateParagraphNode
    \/ ConvertToTextlintAst
    \/ PreProcess

Spec == Init /\ [][Next]_vars

\* One comment of any text, after blank lines and indentation, and the
\* functions of comment.ts called on it.
InitText ==
    \E text \in CommentTexts, n \in 0..MaxGap, c \in 0..MaxIndent :
        /\ rawText = Gap(n) \o Indent(c) \o text
        /\ captures = <<SyntaxNode(Gap(n) \o Indent(c), text)>>
        /\ ret = NoCall

NextText ==
    \/ GetRustdocType
    \/ ExtractContent
    \/ Traverse
    \/ ConvertToTextlintAst

SpecText == InitText /\ [][NextText]_vars

\* --------------------------------------------------------------- properties

\* The comment the single-comment entry points were called on.
LastToken == captures[Len(captures)]

\* ret holds what convertToTextlintAst returned.
IsConvertCall == ret.op \in {"convertToTextlintAst", "preProcess"}

\* The nodes convertToTextlintAst was called on.
ConvertInput == IF ret.op = "preProcess" THEN ret.nodes ELSE captures

\* The comments of nodes that are documentation comments, in order.
DocTokens(nodes) == SelectSeq(nodes, IsRustdoc)

\* The Str nodes under the paragraphs, in order.
RECURSIVE TextNodesOf(_)
TextNodesOf(paragraphs) ==
    IF Len(paragraphs) = 0 THEN <<>>
    ELSE Head(paragraphs).children \o TextNodesOf(Tail(paragraphs))

\* The groups joined into one sequence.
RECURSIVE Concat(_)
Concat(groups) ==
    IF Len(groups) = 0 THEN <<>> ELSE Head(groups) \o Concat(Tail(groups))

StartRows(nodes) == [i \in 1..Len(nodes) |-> nodes[i].startPosition.row]

\* C1: getRustdocType returns the kind of the first rule that matches: `///`
\* is outer_line, else `//!` is inner_line, else `/**` that is not `/***` is
\* outer_block, else `/*!` is inner_block, and every other text, `/***` and
\* plain `//` and `/*` comments among them, is null.
C1_ClassifyFirstMatch ==
    ret.op = "getRustdocType" =>
        LET text == LastToken.text
            third == IF Len(text) >= 3 THEN text[3] ELSE ""
            fourth == IF Len(text) >= 4 THEN text[4] ELSE ""
            line == Len(text) >= 2 /\ text[1] = "/" /\ text[2] = "/"
            block == Len(text) >= 2 /\ text[1] = "/" /\ text[2] = "*"
        IN /\ (line /\ third = "/") => ret.val = "outer_line"
           /\ (line /\ third = "!") => ret.val = "inner_line"
           /\ (block /\ third = "*" /\ fourth # "*") => ret.val = "outer_block"
           /\ (block /\ third = "!") => ret.val = "inner_block"
           /\ (block /\ third = "*" /\ fourth = "*") => ret.val = Null
           /\ (line /\ third \notin {"/", "!"}) => ret.val = Null
           /\ (block /\ third \notin {"*", "!"}) => ret.val = Null
           /\ (~line /\ ~block) => ret.val = Null

\* A comment that starts with `/***` was classified, as no rustdoc comment.
C1_Witness ==
    /\ ret.op = "getRustdocType"
    /\ StartsWith(LastToken.text, TripleStarMarker)
    /\ ret.val = Null

\* C2: the Str nodes under the paragraphs of the document convertToTextlintAst
\* returns are, in order, the Str nodes of exactly the input comments that
\* are documentation comments: none lost, none twice, no regular comment.
C2_TextNodesAreDocTokens ==
    IsConvertCall =>
        LET docs == DocTokens(ConvertInput)
            strs == TextNodesOf(ret.val.children)
        IN /\ Len(strs) = Len(docs)
           /\ \A i \in 1..Len(docs) : <<strs[i]>> = traverse(docs[i])

\* A regular comment between two documentation comments was converted.
C2_Witness ==
    /\ ret.op = "convertToTextlintAst"
    /\ Len(captures) = 3
    /\ IsRustdoc(captures[1]) /\ ~IsRustdoc(captures[2]) /\ IsRustdoc(captures[3])
    /\ Len(TextNodesOf(ret.val.children)) = 2

\* C3: groupConsecutiveNodes partitions its input into maximal runs of
\* comments each starting one row after the one before; no input gives no
\* group, one comment one group, start rows 2, 3, 5 the groups [2, 3] and [5].
C3_GroupsAreMaximalRuns ==
    ret.op = "groupConsecutiveNodes" =>
        LET groups == ret.val
            row(g, j) == groups[g][j].startPosition.row
        IN /\ \A g \in 1..Len(groups) : Len(groups[g]) >= 1
           /\ Concat(groups) = captures
           /\ \A g \in 1..Len(groups) : \A j \in 2..Len(groups[g]) :
                 row(g, j) = row(g, j - 1) + 1
           /\ \A g \in 1..(Len(groups) - 1) :
                 row(g + 1, 1) # row(g, Len(groups[g])) + 1
           /\ Len(captures) = 0 => groups = <<>>
           /\ Len(captures) = 1 => groups = <<captures>>
           /\ StartRows(captures) = <<2, 3, 5>> =>
                 groups = <<SubSeq(captures, 1, 2), <<captures[3]>>>>

\* Comments that start on rows 2, 3 and 5 were grouped.
C3_Witness ==
    /\ ret.op = "groupConsecutiveNodes"
    /\ StartRows(captures) = <<2, 3, 5>>
    /\ Len(ret.val) = 2

\* C4: for an input without a documentation comment convertToTextlintAst
\* returns a document without children, whose raw is the source text and
\* whose range is [0, text.length].
C4_EmptyDocument ==
    (IsConvertCall /\ Len(DocTokens(ConvertInput)) = 0) =>
        /\ ret.val.type = "Document"
        /\ ret.val.children = <<>>
        /\ ret.val.raw = rawText
        /\ ret.val.range = <<0, Len(rawText)>>

\* A source that holds regular comments only was converted.
C4_Witness ==
    /\ ret.op = "convertToTextlintAst"
    /\ Len(captures) >= 2
    /\ Len(DocTokens(captures)) = 0
    /\ ret.val.children = <<>>
    /\ ret.val.range[2] > 0

\* The pairs <<comment, Str node made from it>> of the call ret holds.
ProducedPairs ==
    IF ret.op = "traverse"
    THEN {<<LastToken, ret.val[i]>> : i \in 1..Len(ret.val)}
    ELSE IF IsConvertCall
    THEN LET docs == DocTokens(ConvertInput)
             strs == TextNodesOf(ret.val.children)
         IN {<<docs[i], strs[i]>> : i \in 1..Min(Len(docs), Len(strs))}
    ELSE {}

\* Position a is not after position b, both [line, column] or [row, column].
LocLeq(a, b) == a.line < b.line \/ (a.line = b.line /\ a.column <= b.column)
PositionLeq(a, b) == a.row < b.row \/ (a.row = b.row /\ a.column <= b.column)

\* The comment's offsets agree with its text.
OffsetsMatchText(token) == token.endIndex - token.startIndex = Len(token.text)

IsLineDoc(token) == getRustdocType(token.text) \in {"outer_line", "inner_line"}

\* The number of characters stripped in front of the Str node's content: the
\* three of the opening marker for a block comment, what is missing in front
\* of the content for a line comment.
StrippedPrefix(token, str) ==
    IF IsLineDoc(token) THEN Len(token.text) - Len(str.raw) ELSE 3

\* C5: a Str node made by convertToTextlintAst or traverse from a comment
\* whose offsets agree with its text and whose end is not before its start
\* has range[0] <= range[1] and a start position not after its end position;
\* its start offset and column are the comment's advanced by the stripped
\* prefix length, its end offset, line and column the comment's own end.
C5_StrNodeStartNotAfterEnd ==
    \A pair \in ProducedPairs :
        LET token == pair[1]
            str == pair[2]
        IN (OffsetsMatchText(token)
              /\ PositionLeq(token.startPosition, token.endPosition)) =>
                /\ str.range[1] <= str.range[2]
                /\ LocLeq(str.loc.start, str.loc.end)
                /\ str.range[1] = token.startIndex + StrippedPrefix(token, str)
                /\ str.loc.start.column =
                       token.startPosition.column + StrippedPrefix(token, str)
                /\ str.loc.start.line = token.startPosition.row + 1
                /\ str.range[2] = token.endIndex
                /\ str.loc.end.line = token.endPosition.row + 1
                /\ str.loc.end.column = token.endPosition.column

\* A comment that ends on a later line, in a smaller column than the one its
\* content starts in, was converted.
C5_Witness ==
    /\ ret.op = "convertToTextlintAst"
    /\ \E pair \in ProducedPairs :
          /\ pair[2].loc.start.line < pair[2].loc.end.line
          /\ pair[2].loc.start.column > pair[2].loc.end.column
          /\ pair[2].range[1] < pair[2].range[2]

\* C6: for a Str node made from a `///` or `//!` comment whose offsets agree
\* with its text, range[1] - range[0] is the length of the content, and the
\* stripped prefix is 4 long when a white-space character follows the marker
\* and 3 long otherwise.
C6_LineRangeIsContentLength ==
    \A pair \in ProducedPairs :
        LET token == pair[1]
            str == pair[2]
        IN (IsLineDoc(token) /\ OffsetsMatchText(token)) =>
              /\ str.range[2] - str.range[1] = Len(str.raw)
              /\ str.value = str.raw
              /\ str.range[1] - token.startIndex =
                    (IF Len(token.text) >= 4 /\ IsWhitespace(token.text[4])
                     THEN 4 ELSE 3)

\* A `//!` comment with a space after the marker and content after the space
\* was converted by traverse.
C6_Witness ==
    /\ ret.op = "traverse"
    /\ \E pair \in ProducedPairs :
          /\ StartsWith(pair[1].text, InnerLineMarker \o <<SP>>)
          /\ pair[2].range[1] = pair[1].startIndex + 4
          /\ Len(pair[2].raw) >= 1

\* a is b with characters left out.
RECURSIVE IsSubsequence(_, _)
IsSubsequence(a, b) ==
    IF Len(a) = 0 THEN TRUE
    ELSE IF Len(b) = 0 THEN FALSE
    ELSE IF Head(a) = Head(b) THEN IsSubsequence(Tail(a), Tail(b))
    ELSE IsSubsequence(a, Tail(b))

\* C7: the content extractContent returns holds none of the characters of
\* the comment's markers: for a line comment it is the text after the three
\* characters of `///` or `//!` (and after the one white-space character
\* that may follow), for a block comment it is made of characters between
\* the three of `/**` or `/*!` and the two of the closing `*/`, in order.
C7_ContentExcludesMarkers ==
    ret.op = "extractContent" =>
        LET text == LastToken.text
            content == ret.val.content
        IN IF IsLineDoc(LastToken)
           THEN /\ ret.val.prefixLength >= 3
                /\ content = SubSeq(text, ret.val.prefixLength + 1, Len(text))
           ELSE /\ Len(content) <= Max(Len(text) - 5, 0)
                /\ IsSubsequence(content, SubSeq(text, 4, Len(text) - 2))

\* The content of a block comment with a leader on every line was extracted.
C7_Witness ==
    /\ ret.op = "extractContent"
    /\ getRustdocType(LastToken.text) = "outer_block"
    /\ ret.val.content = <<"a", NL, "a", "!">>

\* The paragraph's range and location span its first and last child.
ParagraphSpansChildren(paragraph) ==
    LET first == paragraph.children[1]
        last == paragraph.children[Len(paragraph.children)]
    IN /\ paragraph.range = <<first.range[1], last.range[2]>>
       /\ paragraph.loc = [start |-> first.loc.start, end |-> last.loc.end]

\* C8: every paragraph convertToTextlintAst emits has at least one Str child,
\* the range [first child's start, last child's end] and the location [first
\* child's start, last child's end]; createParagraphNode returns null, never
\* an empty paragraph, for a group without a documentation comment.
C8_ParagraphsAreNonEmpty ==
    /\ IsConvertCall =>
          \A i \in 1..Len(ret.val.children) :
              /\ ret.val.children[i].type = "Paragraph"
              /\ Len(ret.val.children[i].children) >= 1
              /\ ParagraphSpansChildren(ret.val.children[i])
    /\ ret.op = "createParagraphNode" =>
          /\ Len(DocTokens(captures)) = 0 => ret.val = <<>>
          /\ \A i \in 1..Len(ret.val) :
                /\ Len(ret.val[i].children) >= 1
                /\ ParagraphSpansChildren(ret.val[i])

\* createParagraphNode was called on a group of regular comments only.
C8_Witness ==
    /\ ret.op = "createParagraphNode"
    /\ Len(captures) >= 2
    /\ Len(DocTokens(captures)) = 0
    /\ ret.val = <<>>

\* The nodes are in strictly increasing order of start offset, do not
\* overlap, and their offsets agree with their texts.
SortedDisjoint(nodes) ==
    /\ \A i \in 1..Len(nodes) : OffsetsMatchText(nodes[i])
    /\ \A i \in 1..(Len(nodes) - 1) :
          /\ nodes[i].startIndex < nodes[i + 1].startIndex
          /\ nodes[i].endIndex <= nodes[i + 1].startIndex

\* Range inner lies within range outer.
Within(inner, outer) == outer[1] <= inner[1] /\ inner[2] <= outer[2]

\* C9: for an input sorted by strictly increasing start offset whose comments
\* do not overlap, every paragraph of the returned tree has range[0] <=
\* range[1], every paragraph ends before the next starts, and when there are
\* paragraphs the document's range is [first paragraph's start, last
\* paragraph's end] and holds every paragraph's and every Str node's range.
C9_RangesAreMonotonic ==
    (IsConvertCall /\ SortedDisjoint(ConvertInput)) =>
        LET paragraphs == ret.val.children
            strs == TextNodesOf(paragraphs)
        IN /\ \A i \in 1..Len(paragraphs) :
                 paragraphs[i].range[1] <= paragraphs[i].range[2]
           /\ \A i \in 1..(Len(paragraphs) - 1) :
                 paragraphs[i].range[2] <= paragraphs[i + 1].range[1]
           /\ Len(paragraphs) > 0 =>
                 /\ ret.val.range = <<paragraphs[1].range[1],
                                      paragraphs[Len(paragraphs)].range[2]>>
                 /\ \A i \in 1..Len(paragraphs) :
                       Within(paragraphs[i].range, ret.val.range)
                 /\ \A i \in 1..Len(strs) : Within(strs[i].range, ret.val.range)

\* preProcess put captures that came out of order and twice into order, and
\* the document has two paragraphs.
C9_Witness ==
    /\ ret.op = "preProcess"
    /\ ~SortedDisjoint(captures)
    /\ SortedDisjoint(ret.nodes)
    /\ Len(ret.val.children) = 2

\* The paragraph, by index, that holds the i-th Str node of the document.
RECURSIVE ParagraphIndex(_, _)
ParagraphIndex(paragraphs, i) ==
    IF i <= Len(Head(paragraphs).children) THEN 1
    ELSE 1 + ParagraphIndex(Tail(paragraphs), i - Len(Head(paragraphs).children))

\* A documentation block comment that spans several rows.
IsMultiLineBlockDoc(token) ==
    /\ getRustdocType(token.text) \in {"outer_block", "inner_block"}
    /\ token.endPosition.row > token.startPosition.row

\* C10: convertToTextlintAst groups on the start rows of the documentation
\* comments left after filtering, never on end rows: a block documentation
\* comment over several rows and a `///` comment on the row after its closing
\* marker are two paragraphs, and two documentation comments are in one
\* paragraph only if the later starts one row after the start row of the
\* documentation comment before it.
C10_GroupingUsesStartRows ==
    IsConvertCall =>
        LET docs == DocTokens(ConvertInput)
            paragraphs == ret.val.children
        IN /\ Len(TextNodesOf(paragraphs)) = Len(docs)
           /\ \A i \in 2..Len(docs) :
                 /\ ParagraphIndex(paragraphs, i) = ParagraphIndex(paragraphs, i - 1)
                       => docs[i].startPosition.row = docs[i - 1].startPosition.row + 1
                 /\ ParagraphIndex(paragraphs, i) \in
                       {ParagraphIndex(paragraphs, i - 1),
                        ParagraphIndex(paragraphs, i - 1) + 1}
                 /\ (/\ IsMultiLineBlockDoc(docs[i - 1])
                     /\ getRustdocType(docs[i].text) = "outer_line"
                     /\ docs[i].startPosition.row = docs[i - 1].endPosition.row + 1)
                       => ParagraphIndex(paragraphs, i) # ParagraphIndex(paragraphs, i - 1)

\* A block documentation comment over two rows and a `///` comment on the
\* next row were converted into two paragraphs.
C10_Witness ==
    /\ ret.op = "convertToTextlintAst"
    /\ Len(captures) = 2
    /\ IsMultiLineBlockDoc(captures[1])
    /\ getRustdocType(captures[2].text) = "outer_line"
    /\ captures[2].startPosition.row = captures[1].endPosition.row + 1
    /\ Len(ret.val.children) = 2

====
